---- MODULE Spec2Model ----
(***************************************************************************)
(* The HTML5 writer for docutils (src/__init__.py): HTML5Translator is a   *)
(* NodeVisitor that the document's walkabout drives depth first.  Every    *)
(* visit_X / depart_X handler edits an lxml element tree (self.html) and   *)
(* the stack of insertion points (self.el); astext() then runs compact()   *)
(* over the finished tree.                                                 *)
(*                                                                         *)
(* Texts are sequences of tokens.  Python's None is the empty tuple and a  *)
(* string s is the one-element tuple <<s>>, so that None and "" differ.    *)
(* An lxml element is a record; the tree is the sequence of all elements   *)
(* ever created, an element's identity being its index (0 is None).        *)
(***************************************************************************)
EXTENDS Integers, Sequences, FiniteSets, TLC

\* Source nodes walked below the document node.
MaxNodes == 6
\* Source nodes walked below the document node of a document that does not keep
\* to the docutils document model.
MaxLoose == 3
\* Largest morerows / morecols an entry declares.
MaxSpan == 2
\* Elements below the root of a tree handed directly to compact().
MaxElems == 3

VARIABLES
  pc,                 \* where Writer.translate is: init, walking, walked, done, failed
  html,               \* self.html and everything under it: Seq of elements
  el,                 \* self.el: the stack of insertion points (element ids)
  has_el,             \* whether the attribute self.el exists
  level,              \* self.level (when has_level)
  has_level,          \* whether the attribute self.level exists
  in_thead,           \* self.in_thead: "unset", "true" or "false"
  line_block_indent,  \* self.line_block_indent (when has_indent)
  has_indent,         \* whether the attribute self.line_block_indent exists
  raised,             \* the exception that ended the walk, or "none"
  dateutil,           \* whether `from dateutil.parser import parse` succeeded
  stack,              \* the walkabout's open source nodes, outermost first
  nnodes,             \* source nodes entered so far (the document is node 0)
  log,                \* every dispatch_visit / dispatch_departure so far
  raw,                \* the tree as the walk left it, before compact()
  profile,            \* which node kinds the document under translation uses
  strict              \* whether the document keeps to the docutils document model

vars == <<pc, html, el, has_el, level, has_level, in_thead, line_block_indent, has_indent,
          raised, dateutil, stack, nnodes, log, raw, profile, strict>>

----------------------------------------------------------------------------
(* Python values *)

None == <<>>
Some(s) == <<s>>
IsNone(v) == v = <<>>

\* str(n) for an int
str(n) == ToString(n)

\* u" " * n : a run of n no-break spaces, empty when n <= 0
Nbsp(n) == [i \in 1..(IF n > 0 THEN n ELSE 0) |-> "nbsp"]

\* An attribute dictionary: a function from names to values.
NoAttrs == <<>>
SetAttr(attrs, name, val) == (name :> val) @@ attrs
HasAttr(attrs, name) == name \in DOMAIN attrs
\* dict.get(name, default)
Get(attrs, name, default) == IF name \in DOMAIN attrs THEN attrs[name] ELSE default

----------------------------------------------------------------------------
(* lxml.etree *)

\* etree.Element(tag): no parent, no children, text and tail None
Element(tag) ==
  [tag |-> tag, parent |-> 0, kids |-> <<>>, text |-> None, tail |-> None,
   attrs |-> NoAttrs]

\* the id the next created element gets
NextId(t) == Len(t) + 1

\* etree.SubElement(parent, tag): a new last child of parent
SubElement(t, parent, tag) ==
  [Append(t, [Element(tag) EXCEPT !.parent = parent])
     EXCEPT ![parent].kids = Append(@, NextId(t))]

\* element.set(name, val)
ElSet(t, e, name, val) == [t EXCEPT ![e].attrs = SetAttr(@, name, val)]

\* element.xpath(tag): the children of e with that tag, in document order
XpathChildren(t, e, tag) == SelectSeq(t[e].kids, LAMBDA k : t[k].tag = tag)

\* element.xpath("a/b"): the b children of the a children of e, in document order
RECURSIVE Flatten(_)
Flatten(ss) == IF ss = <<>> THEN <<>> ELSE Head(ss) \o Flatten(Tail(ss))
XpathGrandChildren(t, e, tag1, tag2) ==
  LET as == XpathChildren(t, e, tag1)
  IN  Flatten([i \in 1..Len(as) |-> XpathChildren(t, as[i], tag2)])

\* the elements of the subtree of e in document order (e first)
RECURSIVE Preorder(_, _)
Preorder(t, e) ==
  <<e>> \o Flatten([i \in 1..Len(t[e].kids) |-> Preorder(t, t[e].kids[i])])

\* html_tree.xpath("//p"): every p of the tree, in document order
XpathAllP(t) == SelectSeq(Preorder(t, 1), LAMBDA k : t[k].tag = "p")

----------------------------------------------------------------------------
(* The translator.  A handler takes the translator's state s (a record of  *)
(* the attributes of self) and returns the state it leaves.  An exception  *)
(* is the field raised: once it is set nothing more is executed, and what  *)
(* was assigned before the raise stays assigned.  The field ret holds the  *)
(* value the last call returned (an element id, 0 for None).               *)

Self ==
  [html |-> html, el |-> el, has_el |-> has_el, level |-> level, has_level |-> has_level,
   in_thead |-> in_thead, line_block_indent |-> line_block_indent,
   has_indent |-> has_indent, raised |-> raised, ret |-> 0]

Raise(s, exc) == IF s.raised = "none" THEN [s EXCEPT !.raised = exc] ELSE s
Ok(s) == s.raised = "none"
Ret(s, v) == [s EXCEPT !.ret = v]

\* ids of the elements visit_document builds
HtmlEl == 1
HeadEl == 2
BodyEl == 3
ArticleEl == 4

\* def add_text(node, text)
add_text(t, node, text) ==
  IF Len(t[node].kids) > 0
  THEN [t EXCEPT ![t[node].kids[Len(t[node].kids)]].tail =
              Some((IF IsNone(@) THEN <<>> ELSE @[1]) \o text)]
  ELSE [t EXCEPT ![node].text =
              Some((IF IsNone(@) THEN <<>> ELSE @[1]) \o text)]

\* etree.SubElement(parent, tag) on self.html, returning the new element;
\* etree.SubElement(None, tag) raises TypeError
SubEl(s, parent, tag) ==
  IF ~Ok(s) THEN s
  ELSE IF parent = 0 THEN Raise(s, "TypeError")
  ELSE [s EXCEPT !.html = SubElement(@, parent, tag), !.ret = NextId(s.html)]

\* etree.SubElement(e, tag) for the element e the last call returned
SubElRet(s, tag) == SubEl(s, s.ret, tag)

\* etree.SubElement(tr, tag) for the parent tr of the element the last call returned
SubElSibling(s, tag) == SubEl(s, IF Ok(s) /\ s.ret # 0 THEN s.html[s.ret].parent ELSE 0, tag)

\* e.set(name, val) for the element e the last call returned
ElSetRet(s, name, val) ==
  IF ~Ok(s) THEN s
  ELSE IF s.ret = 0 THEN Raise(s, "AttributeError")
  ELSE [s EXCEPT !.html = ElSet(@, s.ret, name, val)]

\* e.text = val for the element e the last call returned
SetTextRet(s, val) ==
  IF ~Ok(s) THEN s
  ELSE IF s.ret = 0 THEN Raise(s, "AttributeError")
  ELSE [s EXCEPT !.html[s.ret].text = val]

\* def cur_el(self): return self.el[-1]; AttributeError while self.el does not
\* exist (before visit_document), IndexError on an empty list.  The slot may
\* hold None (0), which is returned as it is.
cur_el(s) ==
  IF ~Ok(s) THEN s
  ELSE IF ~s.has_el THEN Raise(s, "AttributeError")
  ELSE IF s.el = <<>> THEN Raise(s, "IndexError")
  ELSE Ret(s, s.el[Len(s.el)])

\* def set_cur_el(self, val): self.el[-1] = val
set_cur_el(s, val) ==
  IF ~Ok(s) THEN s
  ELSE IF ~s.has_el THEN Raise(s, "AttributeError")
  ELSE IF s.el = <<>> THEN Raise(s, "IndexError")
  ELSE [s EXCEPT !.el[Len(s.el)] = val]

\* self.set_cur_el(e) for the element e the last call returned
set_cur_el_ret(s) == set_cur_el(s, s.ret)

\* def visit(self, name): a new last child of the current element becomes
\* current and is returned
visit(s, name) == cur_el(set_cur_el_ret(SubElRet(cur_el(s), name)))

\* e.getparent() for the element e the last call returned: None.getparent()
\* raises AttributeError; the root's parent is None
getparent_ret(s) ==
  IF ~Ok(s) THEN s
  ELSE IF s.ret = 0 THEN Raise(s, "AttributeError")
  ELSE Ret(s, s.html[s.ret].parent)

\* def depart(self): the parent of the current element becomes current
depart(s) == set_cur_el_ret(getparent_ret(cur_el(s)))

\* def add(self, name): a new last child of the current element, not made current
add(s, name) == SubElRet(cur_el(s), name)

\* self.el.append(e) for the element e the last call returned
el_append_ret(s) ==
  IF ~Ok(s) THEN s
  ELSE IF ~s.has_el THEN Raise(s, "AttributeError")
  ELSE [s EXCEPT !.el = Append(@, s.ret)]

\* self.el.pop(), returning the popped element; IndexError on an empty list,
\* AttributeError while self.el does not exist
el_pop(s) ==
  IF ~Ok(s) THEN s
  ELSE IF ~s.has_el THEN Raise(s, "AttributeError")
  ELSE IF s.el = <<>> THEN Raise(s, "IndexError")
  ELSE [s EXCEPT !.el = SubSeq(@, 1, Len(@) - 1), !.ret = s.el[Len(s.el)]]

\* def add_meta(self, attr, val): a meta element under /html/head; self.html
\* does not exist before visit_document (AttributeError); lxml refuses an
\* attribute value of None with TypeError.  val is None or Some(text).
add_meta(s, attr, val) ==
  IF ~Ok(s) THEN s
  ELSE IF s.html = <<>> THEN Raise(s, "AttributeError")
  ELSE IF IsNone(val) THEN Raise(s, "TypeError")
  ELSE ElSetRet(ElSetRet(SubEl(s, HeadEl, "meta"), "name", <<attr>>), "content", val[1])

\* A lookup that makes a new header each time (what C10 must tell apart).
local_header_new(s, tmp) ==
  IF ~Ok(s) THEN s
  ELSE IF tmp # 0 /\ s.html[tmp].tag \in {"section", "article"}
  THEN SubEl(s, tmp, "header")
  ELSE Raise(s, "AttributeError")

\* def local_header(self): the header of the current element when that is a
\* section or the article, created when it has none.  For any other element the
\* code calls tmp.parent(), which lxml elements do not have: AttributeError (as
\* is None.tag).
local_header_from(s, tmp) ==
  IF ~Ok(s) THEN s
  ELSE IF tmp # 0 /\ s.html[tmp].tag \in {"section", "article"}
  THEN IF Len(XpathChildren(s.html, tmp, "header")) > 0
       THEN Ret(s, XpathChildren(s.html, tmp, "header")[1])
       ELSE SubEl(s, tmp, "header")
  ELSE Raise(s, "AttributeError")

local_header(s) == local_header_from(cur_el(s), cur_el(s).ret)

\* def visit_document(self, node): html, head, body, article
document_tree(s) ==
  [s EXCEPT !.html = ElSet(SubElement(SubElement(SubElement(<<Element("html")>>,
                                 HtmlEl, "head"), HtmlEl, "body"), BodyEl, "article"),
                           ArticleEl, "class", <<"docutils">>),
            !.el = <<ArticleEl>>, !.has_el = TRUE]

\* def visit_document(self, node): the style element of the head
document_style(s) ==
  SetTextRet(ElSetRet(SubEl(s, HeadEl, "style"), "type", <<"text/css">>),
             Some(<<"helper_css">>))

\* def visit_document(self, node)
visit_document(s, node) ==
  document_style(add_meta(document_tree(s), "generator", Some(<<"Docutils">>)))

\* def depart_document(self, node): pass
depart_document(s, node) == s

\* add_text(e, text) for the element e the last call returned; len(None)
\* raises TypeError
add_text_ret(s, text) ==
  IF ~Ok(s) THEN s
  ELSE IF s.ret = 0 THEN Raise(s, "TypeError")
  ELSE [s EXCEPT !.html = add_text(@, s.ret, text)]

\* def visit_Text(self, node): add_text(self.cur_el(), node.astext())
visit_Text(s, node) == add_text_ret(cur_el(s), node.text)

\* def depart_Text(self, node): pass
depart_Text(s, node) == s

\* visit_title: self.level is 1 at the first title and one more at each later one
title_level(s) ==
  IF s.has_level THEN [s EXCEPT !.level = @ + 1]
  ELSE [s EXCEPT !.level = 1, !.has_level = TRUE]

\* A title whose heading is created but not pushed (what C2 must tell apart).
title_heading_unpushed(s) ==
  SubElRet(SubElRet(s, "hgroup"), "h" \o str(s.level))

\* visit_title: an hgroup in the header the last call returned, an h<level> in
\* it, and that heading pushed on self.el
title_heading(s) ==
  el_append_ret(SubElRet(SubElRet(s, "hgroup"), "h" \o str(s.level)))

\* def visit_title(self, node)
visit_title(s, node) == title_heading(local_header(title_level(s)))

\* def depart_title(self, node): self.el.pop()
depart_title(s, node) == el_pop(s)

\* A subtitle at the level of its title (what C19 must tell apart).
subtitle_heading_flat(s) ==
  IF ~Ok(s) THEN s
  ELSE IF Len(XpathChildren(s.html, s.ret, "hgroup")) = 0 THEN Raise(s, "IndexError")
  ELSE IF ~s.has_level THEN Raise(s, "AttributeError")
  ELSE el_append_ret(SubEl(s, XpathChildren(s.html, s.ret, "hgroup")[1],
                           "h" \o str(s.level)))

\* visit_subtitle: the first hgroup of the header the last call returned gets
\* a heading one level below self.level; [0] of an empty list is IndexError,
\* an unset self.level AttributeError
subtitle_heading(s) ==
  IF ~Ok(s) THEN s
  ELSE IF Len(XpathChildren(s.html, s.ret, "hgroup")) = 0 THEN Raise(s, "IndexError")
  ELSE IF ~s.has_level THEN Raise(s, "AttributeError")
  ELSE el_append_ret(SubEl(s, XpathChildren(s.html, s.ret, "hgroup")[1],
                           "h" \o str(s.level + 1)))

\* def visit_subtitle(self, node)
visit_subtitle(s, node) == subtitle_heading(local_header(s))

\* def depart_subtitle(self, node): self.el.pop()
depart_subtitle(s, node) == el_pop(s)

\* def visit_section(self, node)
visit_section(s, node) == visit(s, "section")

\* A section departure that leaves self.level as it is (what C3 must tell apart).
section_level_kept(s) ==
  IF ~Ok(s) THEN s
  ELSE IF ~s.has_level THEN Raise(s, "AttributeError")
  ELSE s

\* depart_section: self.level -= 1; AttributeError when self.level is unset
section_level(s) ==
  IF ~Ok(s) THEN s
  ELSE IF ~s.has_level THEN Raise(s, "AttributeError")
  ELSE [s EXCEPT !.level = @ - 1]

\* def depart_section(self, node): self.level -= 1; self.depart()
depart_section(s, node) == depart(section_level(s))

\* def visit_docinfo(self, node): self.local_header().set("itemscope", "true")
visit_docinfo(s, node) == ElSetRet(local_header(s), "itemscope", <<"true">>)

\* def depart_docinfo(self, node): pass
depart_docinfo(s, node) == s

\* A lookup that makes a new table each time (what C17 must tell apart).
docinfo_tbody_new(s) == SubElRet(SubElRet(s, "table"), "tbody")

\* local_docinfo: the first table/tbody of the header the last call returned,
\* or a new table with a new tbody
docinfo_tbody(s) ==
  IF ~Ok(s) THEN s
  ELSE IF Len(XpathGrandChildren(s.html, s.ret, "table", "tbody")) > 0
  THEN Ret(s, XpathGrandChildren(s.html, s.ret, "table", "tbody")[1])
  ELSE SubElRet(SubElRet(s, "table"), "tbody")

\* def local_docinfo(self)
local_docinfo(s) == docinfo_tbody(local_header(s))

\* def prep_docinfo(self, human, machine): a row th(human), td(itemprop=machine)
\* in the local docinfo; returns the td
prep_docinfo(s, human, machine) ==
  ElSetRet(SubElSibling(SetTextRet(SubElRet(SubElRet(local_docinfo(s), "tr"), "th"),
                                   Some(<<human>>)),
                        "td"),
           "itemprop", <<machine>>)

\* def visit_author(self, node)
visit_author(s, node) == el_append_ret(prep_docinfo(s, "Author", "author"))

\* depart_author: self.add_meta("author", el.text) for the popped el
author_meta(s) ==
  IF ~Ok(s) THEN s
  ELSE IF s.ret = 0 THEN Raise(s, "AttributeError")
  ELSE add_meta(s, "author", s.html[s.ret].text)

\* def depart_author(self, node)
depart_author(s, node) == author_meta(el_pop(s))

\* dateutil.parser.parse(text).isoformat() on the date texts the model draws:
\* the ISO form of a text that is a date, ValueError for a text that is none,
\* OverflowError for digits that name no year an int of the C library holds
dateutil_date_string_parse(text) ==
  IF text \in {<<"2009-10-05">>, <<"5 Oct 2009">>}
  THEN [raised |-> "none", iso |-> <<"2009-10-05T00:00:00">>]
  ELSE IF text = <<"9999999999">> THEN [raised |-> "OverflowError", iso |-> <<>>]
  ELSE [raised |-> "ValueError", iso |-> <<>>]

\* def date_string_parse(s): raises ValueError without dateutil, else what
\* dateutil's parser returns or raises
date_string_parse(have, text) ==
  IF have THEN dateutil_date_string_parse(text)
  ELSE [raised |-> "ValueError", iso |-> <<>>]

\* visit_date: try ... except ValueError: pass; else: set datetime on the
\* current element.  Any other exception of the parser leaves visit_date.
date_datetime(s, parsed) ==
  IF ~Ok(s) THEN s
  ELSE IF parsed.raised = "ValueError" THEN s
  ELSE IF parsed.raised # "none" THEN Raise(s, parsed.raised)
  ELSE ElSetRet(cur_el(s), "datetime", parsed.iso)

\* visit_date: node.children[0].astext() is parsed; node.children[0] of a
\* childless node is IndexError
date_parse(s, node) ==
  IF ~Ok(s) THEN s
  ELSE IF IsNone(node.first) THEN Raise(s, "IndexError")
  ELSE date_datetime(s, date_string_parse(dateutil, node.first[1]))

\* def visit_date(self, node)
visit_date(s, node) ==
  date_parse(visit(el_append_ret(prep_docinfo(s, "Date", "date")), "time"), node)

\* depart_date: self.add_meta("date", time.get("datetime", time.text)) for the
\* popped time
date_meta(s) ==
  IF ~Ok(s) THEN s
  ELSE IF s.ret = 0 THEN Raise(s, "AttributeError")
  ELSE add_meta(s, "date",
         IF HasAttr(s.html[s.ret].attrs, "datetime")
         THEN Some(s.html[s.ret].attrs["datetime"])
         ELSE s.html[s.ret].text)

\* def depart_date(self, node)
depart_date(s, node) == date_meta(el_pop(s))

\* def visit_colspec / depart_colspec / visit_definition_list_item /
\* depart_definition_list_item: pass
visit_pass(s, node) == s

\* visit_thead: self.in_thead = True
thead_flag(s, val) == IF ~Ok(s) THEN s ELSE [s EXCEPT !.in_thead = val]

\* def visit_thead(self, node)
visit_thead(s, node) == thead_flag(visit(s, "thead"), "true")

\* def depart_thead(self, node)
depart_thead(s, node) == thead_flag(depart(s), "false")

\* visit_entry: th inside a thead, td otherwise (also when self.in_thead does
\* not exist: AttributeError is caught)
entry_cell(s) == IF s.in_thead = "true" THEN visit(s, "th") ELSE visit(s, "td")

\* A rowspan that is written whatever its value (what C7 must tell apart).
entry_rowspan_always(s, rowspan) ==
  IF Ok(s) THEN ElSetRet(s, "rowspan", <<str(rowspan)>>) ELSE s

\* visit_entry: if rowspan > 1: el.set("rowspan", str(rowspan))
entry_rowspan(s, rowspan) ==
  IF Ok(s) /\ rowspan > 1 THEN ElSetRet(s, "rowspan", <<str(rowspan)>>) ELSE s

\* visit_entry: if colspan > 1: el.set("colspan", str(colspan))
entry_colspan(s, colspan) ==
  IF Ok(s) /\ colspan > 1 THEN ElSetRet(s, "colspan", <<str(colspan)>>) ELSE s

\* def visit_entry(self, node)
visit_entry(s, node) ==
  entry_colspan(entry_rowspan(entry_cell(s), Get(node.attributes, "morerows", 0) + 1),
                Get(node.attributes, "morecols", 0) + 1)

\* def depart_entry(self, node)
depart_entry(s, node) == depart(s)

\* def visit_block_quote(self, node)
visit_block_quote(s, node) == visit(visit(s, "blockquote"), "section")

\* depart_block_quote: the test on c[-1] for the current element c, which the
\* last call returned; [-1] of a childless element is IndexError, None[-1]
\* TypeError
block_quote_close(s) ==
  IF ~Ok(s) THEN s
  ELSE IF s.ret = 0 THEN Raise(s, "TypeError")
  ELSE IF s.html[s.ret].kids = <<>> THEN Raise(s, "IndexError")
  ELSE IF s.html[s.html[s.ret].kids[Len(s.html[s.ret].kids)]].tag # "cite"
       THEN depart(depart(s))
       ELSE depart(s)

\* def depart_block_quote(self, node)
depart_block_quote(s, node) == block_quote_close(cur_el(s))

\* An attribution whose cite is opened where the walk stands, inside the body
\* section (what C6 must tell apart).
visit_attribution_inside(s, node) == visit(s, "cite")

\* def visit_attribution(self, node)
visit_attribution(s, node) == visit(depart(s), "cite")

\* def depart_attribution(self, node)
depart_attribution(s, node) == depart(s)

\* html_list_style = {...}[node.attributes['enumtype']]
html_list_style ==
  [arabic |-> None, loweralpha |-> Some("lower-alpha"), upperalpha |-> Some("upper-alpha"),
   lowerroman |-> Some("lower-roman"), upperroman |-> Some("upper-roman")]

\* A style that is written for the default too (what C13 must tell apart).
list_style_always(s, style) ==
  ElSetRet(s, "style", <<"list-style: ", IF IsNone(style) THEN "decimal" ELSE style[1], ";">>)

\* visit_enumerated_list: if html_list_style: el.set("style", "list-style: %s;" % ...)
list_style(s, style) ==
  IF IsNone(style) THEN s
  ELSE ElSetRet(s, "style", <<"list-style: ", style[1], ";">>)

\* visit_enumerated_list: the lookup; a missing or unknown enumtype is KeyError
\* (after the ol was pushed)
list_style_lookup(s, node) ==
  IF ~Ok(s) THEN s
  ELSE IF ~HasAttr(node.attributes, "enumtype") THEN Raise(s, "KeyError")
  ELSE IF node.attributes["enumtype"] \notin DOMAIN html_list_style
       THEN Raise(s, "KeyError")
  ELSE list_style(s, html_list_style[node.attributes["enumtype"]])

\* def visit_enumerated_list(self, node)
visit_enumerated_list(s, node) == list_style_lookup(visit(s, "ol"), node)

\* def depart_enumerated_list(self, node)
depart_enumerated_list(s, node) == depart(s)

\* visit_line_block: self.line_block_indent is -1 when it does not exist yet
line_block_sentinel(s) ==
  IF s.has_indent THEN s
  ELSE [s EXCEPT !.line_block_indent = -1, !.has_indent = TRUE]

\* visit_option_argument: el.text = node.attributes['delimiter']; KeyError when
\* the node has none
option_delimiter(s, node) ==
  IF ~Ok(s) THEN s
  ELSE IF ~HasAttr(node.attributes, "delimiter") THEN Raise(s, "KeyError")
  ELSE SetTextRet(s, Some(node.attributes["delimiter"]))

\* def visit_option_argument(self, node): a span with the delimiter, closed at
\* once, then a var that stays open
visit_option_argument(s, node) ==
  visit(depart(option_delimiter(ElSetRet(visit(s, "span"), "class", <<"option-delimiter">>),
                                node)),
        "var")

\* def depart_option_argument(self, node)
depart_option_argument(s, node) == depart(s)

\* def visit_option_group(self, node)
visit_option_group(s, node) == visit(visit(s, "th"), "kbd")

\* def depart_option_group(self, node)
depart_option_group(s, node) == depart(depart(s))

\* def visit_line_block(self, node)
visit_line_block(s, node) ==
  [line_block_sentinel(s) EXCEPT !.line_block_indent = @ + 1]

\* A departure that leaves the indent as it is (what C9 must tell apart).
depart_line_block_kept(s, node) ==
  IF ~s.has_indent THEN Raise(s, "AttributeError") ELSE s

\* def depart_line_block(self, node); AttributeError when the attribute is unset
depart_line_block(s, node) ==
  IF ~s.has_indent THEN Raise(s, "AttributeError")
  ELSE [s EXCEPT !.line_block_indent = @ - 1]

\* visit_line: add_text(el, u"\xa0" * (self.line_block_indent * 4)) for the
\* element el the last call returned; AttributeError when the indent is unset
line_indent(s) ==
  IF ~Ok(s) THEN s
  ELSE IF ~s.has_indent THEN Raise(s, "AttributeError")
  ELSE add_text_ret(s, Nbsp(s.line_block_indent * 4))

\* def visit_line(self, node): el = self.cur_el(), then the add_text
visit_line(s, node) == line_indent(cur_el(s))

\* def depart_line(self, node): self.add("br")
depart_line(s, node) == add(s, "br")

\* class Tag
Tag(html_tag_name, classes, attribute_map) ==
  [html_tag_name |-> html_tag_name, classes |-> classes, attribute_map |-> attribute_map]

\* simple_elements = {...}
simple_elements ==
  [paragraph        |-> Tag("p", None, NoAttrs),
   abbreviation     |-> Tag("abbr", None, NoAttrs),
   acronym          |-> Tag("acronym", None, NoAttrs),
   emphasis         |-> Tag("em", None, NoAttrs),
   strong           |-> Tag("strong", None, NoAttrs),
   table            |-> Tag("table", None, NoAttrs),
   tgroup           |-> Tag("tgroup", None, NoAttrs),
   row              |-> Tag("tr", None, NoAttrs),
   tbody            |-> Tag("tbody", None, NoAttrs),
   image            |-> Tag("img", None, [uri |-> "src", alt |-> "alt"]),
   figure           |-> Tag("figure", None, NoAttrs),
   caption          |-> Tag("figcaption", None, NoAttrs),
   transition       |-> Tag("hr", None, NoAttrs),
   definition_list  |-> Tag("dl", None, NoAttrs),
   term             |-> Tag("dt", None, NoAttrs),
   definition       |-> Tag("dd", None, NoAttrs),
   literal_block    |-> Tag("pre", None, NoAttrs),
   bullet_list      |-> Tag("ul", None, NoAttrs),
   list_item        |-> Tag("li", None, NoAttrs),
   option_list      |-> Tag("table", Some("option-list"), NoAttrs),
   option_list_item |-> Tag("tr", None, NoAttrs),
   option           |-> Tag("span", None, NoAttrs),
   option_string    |-> Tag("span", Some("option"), NoAttrs),
   description      |-> Tag("td", None, NoAttrs)]

\* for k in simple_element.attribute_map.keys(): attr = node.attributes.get(k,
\* None); if attr: ... : the attribute is copied when it is there and is not
\* empty
RECURSIVE CopyAttributes(_, _, _, _, _)
CopyAttributes(t, e, map, keys, attributes) ==
  IF keys = {} THEN t
  ELSE CopyAttributes(
         IF Get(attributes, CHOOSE x \in keys : TRUE, None) # <<>>
         THEN ElSet(t, e, map[CHOOSE x \in keys : TRUE],
                    attributes[CHOOSE x \in keys : TRUE])
         ELSE t,
         e, map, keys \ {CHOOSE x \in keys : TRUE}, attributes)

\* visit_rst_name_simple: the class and the mapped attributes of the new element
simple_attributes(s, simple_element, node) ==
  IF ~Ok(s) THEN s
  ELSE [s EXCEPT !.html =
          CopyAttributes(
            IF IsNone(simple_element.classes) THEN s.html
            ELSE ElSet(s.html, s.ret, "class", <<simple_element.classes[1]>>),
            s.ret, simple_element.attribute_map,
            DOMAIN simple_element.attribute_map, node.attributes)]

\* def visit_rst_name_simple(self, node)
visit_rst_name_simple(s, node) ==
  simple_attributes(visit(s, simple_elements[node.kind].html_tag_name),
                    simple_elements[node.kind], node)

\* def depart_rst_name(self, node)
depart_rst_name(s, node) == depart(s)

\* classy_elements = ["topic"]
classy_elements == <<"topic">>

\* def visit_rst_name_classy(self, node): self.classy_elements is a list and is
\* indexed with the node's class name, a str: TypeError before anything is pushed
visit_rst_name_classy(s, node) == Raise(s, "TypeError")

----------------------------------------------------------------------------
(* The normalization pass *)

\* A loop body that does not look at the parent's text (what C15 must tell
\* apart).
compact_p_any_text(t, p) ==
  LET parent == t[p].parent
  IN  IF Len(t[parent].kids) = 1
      THEN [i \in 1..Len(t) |->
              IF i = parent THEN [t[i] EXCEPT !.text = t[p].text, !.kids = t[p].kids]
              ELSE IF i = p THEN [t[i] EXCEPT !.parent = 0, !.kids = <<>>]
              ELSE IF t[i].parent = p THEN [t[i] EXCEPT !.parent = parent]
              ELSE t[i]]
      ELSE t

\* The body of compact's loop for one p: when p is the only child of its parent
\* and the parent has no text, the parent takes p's text, p's children are
\* appended to the parent one by one (lxml moves each with its tail) and p is
\* removed (with its own tail).
compact_p(t, p) ==
  LET parent == t[p].parent
  IN  IF Len(t[parent].kids) = 1 /\ IsNone(t[parent].text)
      THEN [i \in 1..Len(t) |->
              IF i = parent THEN [t[i] EXCEPT !.text = t[p].text, !.kids = t[p].kids]
              ELSE IF i = p THEN [t[i] EXCEPT !.parent = 0, !.kids = <<>>]
              ELSE IF t[i].parent = p THEN [t[i] EXCEPT !.parent = parent]
              ELSE t[i]]
      ELSE t

\* A loop that ends after the first p of the list (what C5 must tell apart).
compact_first(t, ps) ==
  IF ps = <<>> THEN t ELSE compact_p(t, Head(ps))

\* for p in html_tree.xpath("//p"): the list is taken once, before the loop
RECURSIVE compact_loop(_, _)
compact_loop(t, ps) ==
  IF ps = <<>> THEN t ELSE compact_loop(compact_p(t, Head(ps)), Tail(ps))

\* def compact(html_tree)
compact(t) == compact_loop(t, XpathAllP(t))

----------------------------------------------------------------------------
(* The source document and the walk.  A source node is a record: its kind  *)
(* (the docutils class name), its number in visit order, the text of a     *)
(* Text node, the text of the first child (what node.children[0].astext()  *)
(* returns; None for a node without children) and node.attributes.         *)

Node(kind, id, text, first, attributes) ==
  [kind |-> kind, id |-> id, text |-> text, first |-> first, attributes |-> attributes]

\* NodeVisitor.dispatch_visit: the method visit_<class name>; a class without
\* a method ends in unknown_visit, which raises NotImplementedError
dispatch_visit(s, node) ==
  CASE node.kind = "document"        -> visit_document(s, node)
    [] node.kind = "Text"            -> visit_Text(s, node)
    [] node.kind = "title"           -> visit_title(s, node)
    [] node.kind = "subtitle"        -> visit_subtitle(s, node)
    [] node.kind = "section"         -> visit_section(s, node)
    [] node.kind = "docinfo"         -> visit_docinfo(s, node)
    [] node.kind = "author"          -> visit_author(s, node)
    [] node.kind = "date"            -> visit_date(s, node)
    [] node.kind = "thead"           -> visit_thead(s, node)
    [] node.kind = "entry"           -> visit_entry(s, node)
    [] node.kind = "block_quote"     -> visit_block_quote(s, node)
    [] node.kind = "attribution"     -> visit_attribution(s, node)
    [] node.kind = "enumerated_list" -> visit_enumerated_list(s, node)
    [] node.kind = "line_block"      -> visit_line_block(s, node)
    [] node.kind = "line"            -> visit_line(s, node)
    [] node.kind = "option_argument" -> visit_option_argument(s, node)
    [] node.kind = "option_group"    -> visit_option_group(s, node)
    [] node.kind \in {"colspec", "definition_list_item"} -> visit_pass(s, node)
    [] node.kind \in DOMAIN simple_elements -> visit_rst_name_simple(s, node)
    [] node.kind = "topic"           -> visit_rst_name_classy(s, node)
    [] OTHER                         -> Raise(s, "NotImplementedError")

\* NodeVisitor.dispatch_departure
dispatch_departure(s, node) ==
  CASE node.kind = "document"        -> depart_document(s, node)
    [] node.kind = "Text"            -> depart_Text(s, node)
    [] node.kind = "title"           -> depart_title(s, node)
    [] node.kind = "subtitle"        -> depart_subtitle(s, node)
    [] node.kind = "section"         -> depart_section(s, node)
    [] node.kind = "docinfo"         -> depart_docinfo(s, node)
    [] node.kind = "author"          -> depart_author(s, node)
    [] node.kind = "date"            -> depart_date(s, node)
    [] node.kind = "thead"           -> depart_thead(s, node)
    [] node.kind = "entry"           -> depart_entry(s, node)
    [] node.kind = "block_quote"     -> depart_block_quote(s, node)
    [] node.kind = "attribution"     -> depart_attribution(s, node)
    [] node.kind = "enumerated_list" -> depart_enumerated_list(s, node)
    [] node.kind = "line_block"      -> depart_line_block(s, node)
    [] node.kind = "line"            -> depart_line(s, node)
    [] node.kind = "option_argument" -> depart_option_argument(s, node)
    [] node.kind = "option_group"    -> depart_option_group(s, node)
    [] node.kind \in {"colspec", "definition_list_item"} -> visit_pass(s, node)
    [] node.kind \in DOMAIN simple_elements -> depart_rst_name(s, node)
    [] node.kind = "topic"           -> depart_rst_name(s, node)
    [] OTHER                         -> Raise(s, "NotImplementedError")

\* The element self.el[-1] holds, for the record of the walk: 0 for None and
\* while there is none.
Current(s) == IF s.el = <<>> THEN 0 ELSE s.el[Len(s.el)]

\* An open source node of the walk: the node, how many children were walked,
\* the kind of the last one, and the translator's registers just before the
\* node's visit (el0, level0, has_level0) and just after it (own: cur_el).
Frame(node, before, after) ==
  [node |-> node, n |-> 0, last |-> "none",
   el0 |-> before.el, level0 |-> before.level, has_level0 |-> before.has_level,
   own |-> Current(after)]

Top == stack[Len(stack)]

\* What the walk records of a dispatch_visit or dispatch_departure: the node,
\* its parent node, and of the translator's state s the length of self.el,
\* self.level (with whether it exists) and the current element.  For a visit the
\* length and self.level are those before the call (s0), for a departure after
\* it.
Visited(node, parent, s0, s) ==
  [ev |-> "visit", node |-> node, parent |-> parent, ok |-> Ok(s),
   depth |-> Len(s0.el), level |-> s0.level, has_level |-> s0.has_level,
   own |-> Current(s)]
Departed(node, parent, s) ==
  [ev |-> "depart", node |-> node, parent |-> parent, ok |-> Ok(s),
   depth |-> Len(s.el), level |-> s.level, has_level |-> s.has_level,
   own |-> Current(s)]

\* The kinds of node each kind of document uses.
Profiles == {"sections", "docinfo", "quote", "lines", "table", "lists", "headers",
             "options", "figures", "definitions", "mixed"}
Kinds(p) ==
  CASE p = "sections" -> {"section", "title", "subtitle", "paragraph", "Text"}
    [] p = "docinfo"  -> {"title", "docinfo", "author", "date", "emphasis", "Text"}
    [] p = "quote"    -> {"block_quote", "attribution", "paragraph", "line_block", "line", "Text"}
    [] p = "lines"    -> {"line_block", "line", "paragraph", "emphasis", "Text"}
    [] p = "table"    -> {"table", "title", "tgroup", "thead", "tbody", "row", "entry",
                          "paragraph", "Text"}
    [] p = "mixed"    -> {"title", "subtitle", "section", "block_quote", "attribution",
                          "paragraph"}
    [] p = "lists"    -> {"enumerated_list", "list_item", "topic", "paragraph", "Text"}
    [] p = "headers"  -> {"table", "tgroup", "thead", "row", "entry"}
    [] p = "options"  -> {"option_list", "option_list_item", "option_group", "option",
                          "option_string", "option_argument", "description", "paragraph",
                          "Text"}
    [] p = "figures"  -> {"figure", "image", "caption", "transition", "literal_block",
                          "bullet_list", "list_item", "strong", "abbreviation",
                          "acronym", "Text"}
    [] p = "definitions" -> {"definition_list", "definition_list_item", "term",
                             "definition", "colspec", "paragraph", "Text"}

\* How many source nodes a document of each profile may have.
Budget ==
  CASE ~strict -> IF profile = "mixed" THEN MaxLoose + 1 ELSE MaxLoose
    [] profile = "table" -> MaxNodes + 2
    [] profile = "headers" -> MaxNodes + 5
    [] profile = "options" -> MaxNodes + 5
    [] profile = "figures" -> MaxNodes - 2
    [] profile = "sections" -> MaxNodes + 1
    [] OTHER -> MaxNodes

Inline == {"Text", "emphasis", "strong", "abbreviation", "acronym"}
BodyElements ==
  {"paragraph", "block_quote", "line_block", "enumerated_list", "table", "topic",
   "option_list", "figure", "image", "transition", "literal_block", "bullet_list",
   "definition_list"}

\* The docutils document model (docutils.dtd): the children a node may have.
ContentModel(kind) ==
  CASE kind = "document" -> {"title", "subtitle", "docinfo", "section"} \cup BodyElements
    [] kind = "section"  -> {"title", "subtitle", "section"} \cup BodyElements
    [] kind \in {"title", "subtitle", "paragraph", "attribution", "line", "author",
                 "date", "emphasis", "strong", "abbreviation", "acronym", "caption",
                 "literal_block", "term"} -> Inline
    [] kind = "docinfo"  -> {"author", "date"}
    [] kind = "block_quote" -> BodyElements \cup {"attribution"}
    [] kind = "line_block"  -> {"line", "line_block"}
    [] kind \in {"enumerated_list", "bullet_list"} -> {"list_item"}
    [] kind \in {"list_item", "entry", "description", "definition"} -> BodyElements
    [] kind = "table"    -> {"title", "tgroup"}
    [] kind = "tgroup"   -> {"colspec", "thead", "tbody"}
    [] kind = "option_list" -> {"option_list_item"}
    [] kind = "option_list_item" -> {"option_group", "description"}
    [] kind = "option_group" -> {"option"}
    [] kind = "option"   -> {"option_string", "option_argument"}
    [] kind \in {"option_string", "option_argument"} -> {"Text"}
    [] kind = "figure"   -> {"image", "caption"}
    [] kind = "definition_list" -> {"definition_list_item"}
    [] kind = "definition_list_item" -> {"term", "definition"}
    [] kind \in {"thead", "tbody"} -> {"row"}
    [] kind = "row"      -> {"entry"}
    [] OTHER             -> {}

\* The order the document model puts on the children of frame f.  An inline
\* node that is the first child of a date has the text visit_date read as its
\* one child.
ContentOrder(f, k) ==
  /\ k = "title" => f.n = 0
  /\ k = "subtitle" => f.last = "title"
  /\ k = "docinfo" => f.last \in {"none", "title", "subtitle"}
  /\ (f.node.kind = "section" /\ f.n = 0) => k = "title"
  /\ f.last = "section" => k = "section"
  /\ f.last # "attribution"
  /\ k = "attribution" => f.n >= 1
  /\ (f.node.kind # "date" /\ ~IsNone(f.node.first)) => f.n = 0
  /\ k = "thead" => f.n = 0
  /\ f.node.kind \in {"table", "tgroup"} => f.last \notin {"tgroup", "tbody"}
  /\ k = "colspec" => f.last \in {"none", "colspec"}
  /\ f.node.kind = "option_list_item" => (k = "option_group" <=> f.n = 0)
  /\ f.node.kind = "option" => (k = "option_string" <=> f.n = 0)
  /\ f.node.kind = "figure" => (k = "image" <=> f.n = 0)
  /\ f.node.kind = "definition_list_item" => (k = "term" <=> f.n = 0)
  /\ f.last \notin {"description", "caption", "definition"}
  /\ k = "transition" => f.last \notin {"none", "title", "subtitle", "docinfo", "transition"}

\* Whether frame f has the children the document model requires.
ContentComplete(f) ==
  /\ f.node.kind \in {"section", "block_quote", "author", "date", "line_block",
                      "enumerated_list", "table", "tgroup", "thead", "tbody", "row",
                      "bullet_list", "option_list", "option_group", "option",
                      "option_string", "option_argument", "description", "figure",
                      "definition_list", "definition"}
       => f.n >= 1
  /\ f.node.kind = "option_list_item" => f.last = "description"
  /\ f.node.kind = "definition_list_item" => f.last = "definition"
  /\ f.node.kind = "table" => f.last = "tgroup"
  /\ f.last # "transition"

\* A document that does not keep to the model: any kind of the profile under a
\* node that takes children, in any order; a Text still has none, and a date
\* has the one Text that visit_date read.
LooseModel(kind) ==
  IF kind = "Text" THEN {}
  ELSE IF kind = "date" THEN {"Text"}
  ELSE Kinds(profile)

MayEnter(k) ==
  /\ pc = "walking"
  /\ nnodes < Budget
  /\ k \in Kinds(profile)
  /\ IF strict THEN k \in ContentModel(Top.node.kind) /\ ContentOrder(Top, k)
     ELSE k \in LooseModel(Top.node.kind) /\ (Top.node.kind = "date" => Top.n = 0)

MayLeave(k) ==
  /\ pc = "walking"
  /\ Top.node.kind = k
  /\ strict => ContentComplete(Top)
  /\ ~IsNone(Top.node.first) => Top.n >= 1

\* The translator's attributes after a handler.
Commit(s) ==
  /\ html' = s.html
  /\ el' = s.el
  /\ has_el' = s.has_el
  /\ level' = s.level
  /\ has_level' = s.has_level
  /\ in_thead' = s.in_thead
  /\ line_block_indent' = s.line_block_indent
  /\ has_indent' = s.has_indent
  /\ raised' = s.raised

\* node.walkabout(visitor), first half: dispatch_visit(node); an exception
\* leaves walkabout and translate
Entered(node, s) ==
  /\ Commit(s)
  /\ log' = Append(log, Visited(node, Top.node.id, Self, s))
  /\ pc' = IF Ok(s) THEN "walking" ELSE "failed"
  /\ stack' = IF Ok(s)
              THEN Append([stack EXCEPT ![Len(stack)].n = @ + 1,
                                        ![Len(stack)].last = node.kind],
                          Frame(node, Self, s))
              ELSE stack

Enter(node) ==
  /\ MayEnter(node.kind)
  /\ Entered(node, dispatch_visit(Self, node))
  /\ nnodes' = nnodes + 1
  /\ UNCHANGED <<raw, dateutil, profile, strict>>

\* node.walkabout(visitor), second half: dispatch_departure(node)
Left(s) ==
  /\ Commit(s)
  /\ log' = Append(log, Departed(Top.node,
                                 IF Len(stack) > 1 THEN stack[Len(stack) - 1].node.id ELSE -1,
                                 s))
  /\ pc' = IF ~Ok(s) THEN "failed"
           ELSE IF Len(stack) = 1 THEN "walked" ELSE "walking"
  /\ stack' = IF Ok(s) THEN SubSeq(stack, 1, Len(stack) - 1) ELSE stack

Leave(kind) ==
  /\ MayLeave(kind)
  /\ Left(dispatch_departure(Self, Top.node))
  /\ UNCHANGED <<nnodes, raw, dateutil, profile, strict>>

\* A node that has no attribute and whose children are not read by its
\* handler.  As the first child of a date (or of such a first child) its text
\* is what visit_date read with node.children[0].astext(): it passes on to its
\* own first child.
Plain(kind) ==
  Node(kind, nnodes + 1, <<>>, IF Top.n = 0 THEN Top.node.first ELSE None, NoAttrs)

\* The texts of date fields.
DateTexts == {<<"2009-10-05">>, <<"5 Oct 2009">>, <<"soon">>, <<"9999999999">>}

\* The attributes of an entry: neither span declared, one of them, or both.
EntryAttributes ==
  IF profile = "headers" THEN {NoAttrs}
  ELSE
  {NoAttrs}
    \cup {[morerows |-> r] : r \in 0..MaxSpan}
    \cup {[morecols |-> c] : c \in 0..MaxSpan}
    \cup {[morerows |-> MaxSpan, morecols |-> MaxSpan]}

EnumTypes == {"arabic", "loweralpha", "upperalpha", "lowerroman", "upperroman"}

----------------------------------------------------------------------------
(* Actions *)

\* HTML5Translator(document) is constructed; nothing is walked yet.
Init ==
  /\ pc = "init"
  /\ html = <<>>
  /\ el = <<>>
  /\ has_el = FALSE
  /\ level = 0
  /\ has_level = FALSE
  /\ in_thead = "unset"
  /\ line_block_indent = 0
  /\ has_indent = FALSE
  /\ raised = "none"
  /\ stack = <<>>
  /\ nnodes = 0
  /\ log = <<>>
  /\ raw = <<>>
  /\ profile \in Profiles
  /\ dateutil \in (IF "date" \in Kinds(profile) THEN BOOLEAN ELSE {TRUE})
  /\ strict = TRUE

\* The same, for a document that need not keep to the document model.
InitAny ==
  /\ pc = "init"
  /\ html = <<>>
  /\ el = <<>>
  /\ has_el = FALSE
  /\ level = 0
  /\ has_level = FALSE
  /\ in_thead = "unset"
  /\ line_block_indent = 0
  /\ has_indent = FALSE
  /\ raised = "none"
  /\ stack = <<>>
  /\ nnodes = 0
  /\ log = <<>>
  /\ raw = <<>>
  /\ profile \in Profiles
  /\ dateutil \in (IF "date" \in Kinds(profile) THEN BOOLEAN ELSE {TRUE})
  /\ strict = FALSE

DocumentEntered(node, s) ==
  /\ Commit(s)
  /\ log' = <<Visited(node, -1, Self, s)>>
  /\ stack' = <<Frame(node, Self, s)>>

\* Writer.translate: self.document.walkabout(visitor) starts at the document
VisitDocument ==
  /\ pc = "init"
  /\ DocumentEntered(Node("document", 0, <<>>, None, NoAttrs),
                     dispatch_visit(Self, Node("document", 0, <<>>, None, NoAttrs)))
  /\ pc' = "walking"
  /\ UNCHANGED <<nnodes, raw, dateutil, profile, strict>>

DepartDocument == Leave("document")

\* The next Text node: as the first child of a date (or of its first child)
\* the text visit_date read, else a text of its own
TextNode ==
  Node("Text", nnodes + 1,
       IF Top.n = 0 /\ ~IsNone(Top.node.first) THEN Top.node.first[1]
       ELSE <<"t" \o str(nnodes + 1)>>,
       None, NoAttrs)

\* node.walkabout(visitor) for a node without children: dispatch_visit(node)
\* and, when that returned, dispatch_departure(node)
walkabout_leaf(s, node) ==
  IF Ok(dispatch_visit(s, node))
  THEN dispatch_departure(dispatch_visit(s, node), node)
  ELSE dispatch_visit(s, node)

\* The walk after a Text: when its visit raised, only the visit was called and
\* the walk is left
TextWalked(s) ==
  /\ Commit(s)
  /\ log' = IF Ok(s)
            THEN log \o <<Visited(TextNode, Top.node.id, Self, s),
                           Departed(TextNode, Top.node.id, s)>>
            ELSE Append(log, Visited(TextNode, Top.node.id, Self, s))
  /\ pc' = IF Ok(s) THEN "walking" ELSE "failed"
  /\ stack' = IF Ok(s)
              THEN [stack EXCEPT ![Len(stack)].n = @ + 1, ![Len(stack)].last = "Text"]
              ELSE stack

\* A Text node has no children: its visit and its (empty) departure
WalkText ==
  /\ MayEnter("Text")
  /\ TextWalked(walkabout_leaf(Self, TextNode))
  /\ nnodes' = nnodes + 1
  /\ UNCHANGED <<raw, dateutil, profile, strict>>

VisitTitle == Enter(Plain("title"))
DepartTitle == Leave("title")
VisitSubtitle == Enter(Plain("subtitle"))
DepartSubtitle == Leave("subtitle")
VisitSection == Enter(Plain("section"))
DepartSection == Leave("section")
VisitDocinfo == Enter(Plain("docinfo"))
DepartDocinfo == Leave("docinfo")
VisitAuthor == Enter(Plain("author"))
DepartAuthor == Leave("author")
VisitDate ==
  \E first \in {Some(d) : d \in DateTexts} \cup (IF strict THEN {} ELSE {None}) :
    Enter(Node("date", nnodes + 1, <<>>, first, NoAttrs))
DepartDate == Leave("date")
VisitThead == Enter(Plain("thead"))
DepartThead == Leave("thead")
VisitEntry ==
  \E attributes \in EntryAttributes :
    Enter(Node("entry", nnodes + 1, <<>>, None, attributes))
DepartEntry == Leave("entry")
VisitBlockQuote == Enter(Plain("block_quote"))
DepartBlockQuote == Leave("block_quote")
VisitAttribution == Enter(Plain("attribution"))
DepartAttribution == Leave("attribution")
VisitEnumeratedList ==
  \E enumtype \in EnumTypes :
    Enter(Node("enumerated_list", nnodes + 1, <<>>, None, [enumtype |-> enumtype]))
DepartEnumeratedList == Leave("enumerated_list")
VisitLineBlock == Enter(Plain("line_block"))
DepartLineBlock == Leave("line_block")
VisitLine == Enter(Plain("line"))
DepartLine == Leave("line")
VisitOptionGroup == Enter(Plain("option_group"))
DepartOptionGroup == Leave("option_group")
\* An option_argument has its delimiter as an attribute (the parser always
\* sets one).
VisitOptionArgument ==
  \E attributes \in {[delimiter |-> <<" ">>], [delimiter |-> <<"=">>]}
                       \cup (IF strict THEN {} ELSE {NoAttrs}) :
    Enter(Node("option_argument", nnodes + 1, <<>>, None, attributes))
DepartOptionArgument == Leave("option_argument")
\* An image has its uri, and an alt that is absent, empty or set.
VisitImage ==
  \E attributes \in {[uri |-> <<"pic.png">>],
                       [uri |-> <<"pic.png">>, alt |-> <<>>],
                       [uri |-> <<"pic.png">>, alt |-> <<"a picture">>]}
                       \cup (IF strict THEN {} ELSE {NoAttrs, [uri |-> <<>>]}) :
    Enter(Node("image", nnodes + 1, <<>>, None, attributes))
VisitSimple == \E k \in DOMAIN simple_elements \ {"image"} : Enter(Plain(k))
DepartSimple == \E k \in DOMAIN simple_elements : Leave(k)
VisitPass == \E k \in {"colspec", "definition_list_item"} : Enter(Plain(k))
DepartPass == \E k \in {"colspec", "definition_list_item"} : Leave(k)
VisitTopic == Enter(Plain("topic"))

\* def astext(self): compact(self.html), then self.doctype + "\n" +
\* etree.tostring(self.html, ...).  tostring returns a byte string: Python 2
\* concatenates, Python 3 raises TypeError (str + bytes), after the tree was
\* compacted.  src/ does not say which interpreter runs it.
astext(s, python) ==
  IF python = 3 THEN Raise([s EXCEPT !.html = compact(@)], "TypeError")
  ELSE [s EXCEPT !.html = compact(@)]

\* Writer.translate: self.output = visitor.astext()
Astext ==
  /\ pc = "walked"
  /\ raw' = html
  /\ \E python \in {2, 3} :
       /\ Commit(astext(Self, python))
       /\ pc' = IF python = 3 THEN "failed" ELSE "done"
  /\ UNCHANGED <<dateutil, stack, nnodes, log, profile, strict>>

Next ==
  \/ VisitDocument \/ DepartDocument \/ WalkText
  \/ VisitTitle \/ DepartTitle \/ VisitSubtitle \/ DepartSubtitle
  \/ VisitSection \/ DepartSection
  \/ VisitDocinfo \/ DepartDocinfo \/ VisitAuthor \/ DepartAuthor
  \/ VisitDate \/ DepartDate
  \/ VisitThead \/ DepartThead \/ VisitEntry \/ DepartEntry
  \/ VisitBlockQuote \/ DepartBlockQuote \/ VisitAttribution \/ DepartAttribution
  \/ VisitEnumeratedList \/ DepartEnumeratedList
  \/ VisitLineBlock \/ DepartLineBlock \/ VisitLine \/ DepartLine
  \/ VisitOptionGroup \/ DepartOptionGroup
  \/ VisitOptionArgument \/ DepartOptionArgument
  \/ VisitImage \/ VisitSimple \/ DepartSimple \/ VisitPass \/ DepartPass \/ VisitTopic
  \/ Astext

Spec == Init /\ [][Next]_vars

SpecAny == InitAny /\ [][Next]_vars

----------------------------------------------------------------------------
(* compact() as a function of any tree *)

\* The trees of n elements under a root: element i + 1 hangs under an earlier
\* element and is a p or not; a text is None, empty or a text of its own, a
\* tail None or a text of its own.  The root is no p (it is the html element).
MkTree(n, pv, tg, tx, tl) ==
  [i \in 1..(n + 1) |->
     [tag |-> IF i = 1 THEN "html" ELSE tg[i],
      parent |-> IF i = 1 THEN 0 ELSE pv[i],
      kids |-> SelectSeq([j \in 1..(n + 1) |-> j], LAMBDA j : j > 1 /\ pv[j] = i),
      text |-> tx[i],
      tail |-> IF i = 1 THEN None ELSE tl[i],
      attrs |-> NoAttrs]]
TreesOf(n) ==
  LET ElemIds == 2..(n + 1)
      TextsOf(i) == {None, Some(<<>>), Some(<<"x" \o str(i)>>)}
      TailsOf(i) == {None, Some(<<"y" \o str(i)>>)}
  IN  {MkTree(n, pv, tg, tx, tl) :
         pv \in {f \in [ElemIds -> 1..n] : \A i \in ElemIds : f[i] < i},
         tg \in [ElemIds -> {"p", "div"}],
         tx \in {f \in [1..(n + 1) -> UNION {TextsOf(i) : i \in 1..(n + 1)}] :
                   \A i \in 1..(n + 1) : f[i] \in TextsOf(i)},
         tl \in {f \in [ElemIds -> UNION {TailsOf(i) : i \in ElemIds}] :
                   \A i \in ElemIds : f[i] \in TailsOf(i)}}

\* A tree is handed to compact(): raw keeps it.
InitCompact ==
  /\ pc = "tree"
  /\ \E n \in 0..MaxElems : html \in TreesOf(n)
  /\ raw = html
  /\ el = <<>>
  /\ has_el = FALSE
  /\ level = 0
  /\ has_level = FALSE
  /\ in_thead = "unset"
  /\ line_block_indent = 0
  /\ has_indent = FALSE
  /\ raised = "none"
  /\ stack = <<>>
  /\ nnodes = 0
  /\ log = <<>>
  /\ profile = "none"
  /\ dateutil = TRUE
  /\ strict = TRUE

\* compact(html_tree)
Compact ==
  /\ pc = "tree"
  /\ html' = compact(html)
  /\ pc' = "once"
  /\ UNCHANGED <<el, has_el, level, has_level, in_thead, line_block_indent, has_indent,
                 raised, dateutil, stack, nnodes, log, raw, profile, strict>>

\* compact(html_tree) once more, on the tree the first call left
CompactAgain ==
  /\ pc = "once"
  /\ html' = compact(html)
  /\ pc' = "twice"
  /\ UNCHANGED <<el, has_el, level, has_level, in_thead, line_block_indent, has_indent,
                 raised, dateutil, stack, nnodes, log, raw, profile, strict>>

NextCompact == Compact \/ CompactAgain

SpecCompact == InitCompact /\ [][NextCompact]_vars

----------------------------------------------------------------------------
(* The record of the walk *)

\* Where in log node i was visited, and where it was departed from.
\* The heading depth the call at k recorded: self.level, an attribute that does
\* not exist yet counting as 0 (the first title sets it to 1, as an increment
\* from 0 would).
DepthAt(k) == IF log[k].has_level THEN log[k].level ELSE 0

VisitsOf(i) == {k \in 1..Len(log) : log[k].ev = "visit" /\ log[k].node.id = i}
DepartsOf(i) == {k \in 1..Len(log) : log[k].ev = "depart" /\ log[k].node.id = i}
NodeIds == 0..nnodes

\* Every call between the visit (at j) and the departure (at k) of a node
\* belongs to a node visited and departed from between the two.
Between(j, k) ==
  \A m \in (j + 1)..(k - 1) :
    \E v \in VisitsOf(log[m].node.id), d \in DepartsOf(log[m].node.id) :
      j < v /\ v <= m /\ m <= d /\ d < k

\* Visits and departures are nested as the source tree is: at most one of each
\* per node, a departure after its visit with only complete pairs in between,
\* a child visited while its parent is open.
WellNested ==
  \A i \in NodeIds :
    /\ Cardinality(VisitsOf(i)) <= 1
    /\ Cardinality(DepartsOf(i)) <= 1
    /\ \A k \in DepartsOf(i) : \E j \in VisitsOf(i) : j < k /\ Between(j, k)
    /\ \A v \in VisitsOf(i) :
         log[v].parent >= 0 =>
           /\ \E pv \in VisitsOf(log[v].parent) : pv < v
           /\ \A pd \in DepartsOf(log[v].parent) : v < pd

\* Once the walk has ended, by returning or by an exception, every node of the
\* document was visited once and departed from once, and each call returned.
AllWalked ==
  pc \notin {"init", "walking"} =>
    \A i \in NodeIds :
      /\ Cardinality(VisitsOf(i)) = 1 /\ Cardinality(DepartsOf(i)) = 1
      /\ \A k \in VisitsOf(i) \cup DepartsOf(i) : log[k].ok

\* The tree the walk built: astext() keeps it in raw when it compacts html.
WalkTree == IF raw # <<>> THEN raw ELSE html

\* How deep element e lies in tree t: 1 for the root, 0 for None.
RECURSIVE Ancestors(_, _)
Ancestors(t, e) == IF e = 0 THEN 0 ELSE 1 + Ancestors(t, t[e].parent)

\* The depth of the translator's context after the departure from node i is
\* what it was before the visit of i.  The context is self.el together with
\* the open elements above its last entry: title, subtitle, author and date
\* append to and pop from self.el, while visit() and depart() move its last
\* entry one element down and up the tree.  The element that was current
\* before the visit at j is the one the call before it left current.
DepthRestored(i) ==
  \A j \in VisitsOf(i), k \in DepartsOf(i) :
    /\ log[k].depth = log[j].depth
    /\ Ancestors(WalkTree, log[k].own) = Ancestors(WalkTree, log[j - 1].own)

----------------------------------------------------------------------------
(* C1 *)

\* C1 as stated: in every walk visits and departures are nested as the
\* source tree is, at most one of each per node; once the walk has ended every
\* node was visited exactly once and departed from exactly once; and after
\* the departure from a node the context is as deep as it was before that
\* node's visit.  self.el does not exist before the document's visit, which
\* creates it holding the article: for the document the length after its
\* departure is the length of that list, 1.  A handler that raises (at a
\* topic, at a date the parser overflows on) ends the walk inside the node,
\* and an attribution leaves the blockquote current where the quote's body
\* section was.
C1_StackDiscipline ==
  /\ WellNested
  /\ AllWalked
  /\ \A i \in NodeIds \ {0} : DepthRestored(i)
  /\ \A k \in DepartsOf(0) : log[k].depth = 1

----------------------------------------------------------------------------
(* C2 *)

\* The element e is the article or lies under it.
RECURSIVE UnderArticle(_, _)
UnderArticle(t, e) ==
  IF e = 0 \/ e > Len(t) THEN FALSE
  ELSE IF e = ArticleEl THEN TRUE
  ELSE UnderArticle(t, t[e].parent)

\* C2: from the document's visit until the walk ends self.el is never empty,
\* and its bottom slot holds the insertion point that visit_document put
\* there: the article or, while a container under it is open, an element
\* under the article; when the walk has returned it is the article again.
C2_NeverEmpty ==
  /\ pc \in {"walking", "walked", "done"} => Len(el) >= 1 /\ UnderArticle(html, el[1])
  /\ pc \in {"walked", "done"} => el = <<ArticleEl>>

\* A title has been departed from (its pop has run) while the walk goes on.
C2_Witness ==
  /\ pc = "walking"
  /\ \E k \in 1..Len(log) : log[k].ev = "depart" /\ log[k].node.kind = "title"
  /\ Len(el) = 1

----------------------------------------------------------------------------
(* C3, C4 *)

\* The visits of titles that are children of a section, and whether the
\* sections of two of them are siblings.
SectionTitles ==
  {k \in 1..Len(log) :
     /\ log[k].ev = "visit" /\ log[k].node.kind = "title" /\ log[k].ok
     /\ \E v \in VisitsOf(log[k].parent) : log[v].node.kind = "section"}
SiblingSections(a, b) ==
  /\ log[a].parent # log[b].parent
  /\ \E va \in VisitsOf(log[a].parent), vb \in VisitsOf(log[b].parent) :
       log[va].parent = log[vb].parent

\* C3: the heading depth (self.level; an unset self.level counts as 0, the
\* value an increment would start from) after the departure from a section is
\* what it was just before the section's visit, and the titles of two sibling
\* sections get headings of the same tag h<n>.
C3_HeadingDepthRestored ==
  /\ \A i \in NodeIds : \A j \in VisitsOf(i), k \in DepartsOf(i) :
       (log[j].node.kind = "section" /\ log[k].ok) => DepthAt(k) = DepthAt(j)
  /\ \A a \in SectionTitles, b \in SectionTitles :
       SiblingSections(a, b) => html[log[a].own].tag = html[log[b].own].tag

\* Two sibling sections with titles, the first with a titled subsection of its
\* own in between, all walked.
C3_Witness ==
  /\ pc = "walked"
  /\ \E a \in SectionTitles, b \in SectionTitles, c \in SectionTitles :
       /\ SiblingSections(a, b) /\ a < c /\ c < b
       /\ \E vc \in VisitsOf(log[c].parent) : log[vc].parent = log[a].parent

\* C4 as stated: self.level is never negative.  depart_section subtracts 1
\* without looking at the value: under a titled document, the departure from
\* a second section without a title takes self.level from 0 to -1, and no
\* exception is raised.
C4_NeverNegative == has_level => level >= 0

----------------------------------------------------------------------------
(* C5 *)

\* The p elements of tree t that compact would collapse: the only child of a
\* parent without text.
Collapsible(t) ==
  {p \in 1..Len(t) :
     /\ t[p].tag = "p" /\ t[p].parent # 0
     /\ Len(t[t[p].parent].kids) = 1 /\ IsNone(t[t[p].parent].text)}

\* C5: for every tree, the tree that two calls of compact() leave is the tree
\* that one call leaves, and after one call no p of the tree is the only
\* child of a parent without text.
C5_Idempotent ==
  /\ pc = "twice" => html = compact(raw)
  /\ pc \in {"once", "twice"} => Collapsible(html) = {}

\* Two calls were made on a tree in which a p with a p as its only child is
\* itself an only child: the first call collapsed both.
C5_Witness ==
  /\ pc = "twice"
  /\ \E p \in Collapsible(raw) : \E q \in 1..Len(raw) :
       raw[q].tag = "p" /\ raw[q].parent = p /\ Len(raw[p].kids) = 1 /\ IsNone(raw[p].text)
  /\ html # raw

----------------------------------------------------------------------------
(* C6 *)

\* The visits of the nodes of a kind, and of the children of node i of a kind.
VisitsOfKind(kind) ==
  {k \in 1..Len(log) : log[k].ev = "visit" /\ log[k].node.kind = kind /\ log[k].ok}
ChildVisits(i, kind) == {k \in VisitsOfKind(kind) : log[k].parent = i}

\* The text of the Text children of node i, in order; None when it has none.
TextUnder(i) ==
  LET texts == SelectSeq(log, LAMBDA e : e.ev = "visit" /\ e.node.kind = "Text" /\ e.parent = i)
  IN  IF texts = <<>> THEN None
      ELSE Some(Flatten([k \in 1..Len(texts) |-> texts[k].node.text]))

\* The body section sec of a block quote after compact(): when the walk left
\* it with a p as its only child and no text, it has the text and the
\* children of that p; otherwise what the walk left in it.
BodyMerged(sec) ==
  IF Len(raw[sec].kids) = 1 /\ raw[raw[sec].kids[1]].tag = "p" /\ IsNone(raw[sec].text)
  THEN /\ html[sec].text = raw[raw[sec].kids[1]].text
       /\ html[sec].kids = raw[raw[sec].kids[1]].kids
  ELSE /\ html[sec].text = raw[sec].text
       /\ html[sec].kids = raw[sec].kids

\* C6: once astext() has compacted the tree, for every block quote of the source that ends with an
\* attribution: the blockquote element has exactly two children, in order the
\* body section and a cite; the cite holds the attribution's text; the section
\* is still there and holds the quoted content, the content of a sole
\* paragraph merged into it.
C6_QuoteWithAttribution ==
  raw # <<>> =>
    \A q \in VisitsOfKind("block_quote") :
      \A a \in ChildVisits(log[q].node.id, "attribution") :
        LET sec == log[q].own
            cite == log[a].own
            bq == raw[sec].parent
        IN  /\ html[bq].tag = "blockquote"
            /\ html[bq].kids = <<sec, cite>>
            /\ html[sec].tag = "section" /\ html[sec].parent = bq
            /\ html[cite].tag = "cite" /\ html[cite].parent = bq
            /\ html[cite].text = TextUnder(log[a].node.id)
            /\ html[cite].kids = <<>>
            /\ BodyMerged(sec)

\* A quote of one paragraph with text and an attribution with text has been
\* translated: the paragraph is gone and the section has its text.
C6_Witness ==
  /\ pc = "done"
  /\ \E q \in VisitsOfKind("block_quote") :
       \E a \in ChildVisits(log[q].node.id, "attribution") :
         /\ ~IsNone(TextUnder(log[a].node.id))
         /\ Len(raw[log[q].own].kids) = 1
         /\ raw[raw[log[q].own].kids[1]].tag = "p"
         /\ ~IsNone(raw[raw[log[q].own].kids[1]].text)
         /\ html[log[q].own].kids = <<>>
         /\ html[log[q].own].text = raw[raw[log[q].own].kids[1]].text

----------------------------------------------------------------------------
(* C7 *)

\* The attribute name of cell e is there exactly when extra >= 1, and is then
\* the decimal numeral of extra + 1.
SpanAttribute(e, name, extra) ==
  /\ HasAttr(html[e].attrs, name) <=> extra >= 1
  /\ HasAttr(html[e].attrs, name) => html[e].attrs[name] = <<ToString(extra + 1)>>

\* C7: the cell made for a table entry has a rowspan attribute exactly when
\* the entry's morerows is at least 1, with value morerows + 1, and a colspan
\* attribute exactly when its morecols is at least 1, with value morecols + 1;
\* an entry that declares neither has neither attribute.
C7_SpanAttributes ==
  \A k \in VisitsOfKind("entry") :
    /\ html[log[k].own].tag \in {"td", "th"}
    /\ SpanAttribute(log[k].own, "rowspan", Get(log[k].node.attributes, "morerows", 0))
    /\ SpanAttribute(log[k].own, "colspan", Get(log[k].node.attributes, "morecols", 0))

\* A row has an entry without spans, whose cell has no attribute, and an entry
\* with the largest spans, whose cell has both.
C7_Witness ==
  \E k \in VisitsOfKind("entry"), m \in VisitsOfKind("entry") :
    /\ log[k].node.attributes = NoAttrs
    /\ html[log[k].own].attrs = NoAttrs
    /\ Get(log[m].node.attributes, "morerows", 0) = MaxSpan
    /\ Get(log[m].node.attributes, "morecols", 0) = MaxSpan
    /\ html[log[m].own].attrs["rowspan"] = <<ToString(MaxSpan + 1)>>
    /\ html[log[m].own].attrs["colspan"] = <<ToString(MaxSpan + 1)>>

----------------------------------------------------------------------------
(* C8 *)

\* Whether the walk returned and astext() was called (it keeps the tree the walk
\* left in raw).
AstextCalled == raw # <<>>

\* The text a reader sees in element e of tree t: its text, then the text of
\* each child followed by the child's tail.
Tokens(v) == IF IsNone(v) THEN <<>> ELSE v[1]
RECURSIVE TextOf(_, _)
TextOf(t, e) ==
  Tokens(t[e].text)
    \o Flatten([i \in 1..Len(t[e].kids) |->
                  TextOf(t, t[e].kids[i]) \o Tokens(t[t[e].kids[i]].tail)])

\* The text of the source node visited at j and departed from at k: that of
\* the Text nodes walked in between.
NodeText(j, k) ==
  LET texts == SelectSeq(SubSeq(log, j, k), LAMBDA e : e.ev = "visit" /\ e.node.kind = "Text")
  IN  Flatten([m \in 1..Len(texts) |-> texts[m].node.text])

\* C8 as stated: for a date field, when dateutil is there and parses the
\* field's text,
\* the time element has a datetime attribute with the parser's ISO form;
\* when it is not there or does not parse the text, the time element has no
\* datetime attribute and the walk goes on: neither the visit of the field
\* nor the departure from it raises; once the field is departed from, the
\* time element shows the field's text in either case.  visit_date catches
\* ValueError only, and depart_date hands add_meta the time element's own
\* text, None when the parse failed and the text lies in an inline child.
C8_DateField ==
  \A k \in 1..Len(log) :
    (log[k].ev = "visit" /\ log[k].node.kind = "date") =>
      LET text == log[k].node.first[1]
          time == log[k].own
          parsed == dateutil_date_string_parse(text)
      IN  /\ log[k].ok
          /\ html[time].tag = "time"
          /\ IF dateutil /\ parsed.raised = "none"
             THEN /\ HasAttr(html[time].attrs, "datetime")
                  /\ html[time].attrs["datetime"] = parsed.iso
             ELSE ~HasAttr(html[time].attrs, "datetime")
          /\ \A d \in DepartsOf(log[k].node.id) :
               /\ log[d].ok
               /\ TextOf(html, time) = NodeText(k, d)

----------------------------------------------------------------------------
(* C9 *)

\* The call the step appended to log, if it appended one.
Called(ev, kind) ==
  /\ Len(log') = Len(log) + 1
  /\ log'[Len(log')].ev = ev /\ log'[Len(log')].node.kind = kind /\ log'[Len(log')].ok

\* The line blocks that are open, and the text where add_text would write in
\* element e of tree t (the text of e, or the tail of its last child).
OpenLineBlocks(st) == {k \in 1..Len(st) : st[k].node.kind = "line_block"}
Written(t, e) ==
  LET v == IF t[e].kids = <<>> THEN t[e].text ELSE t[t[e].kids[Len(t[e].kids)]].tail
  IN  IF IsNone(v) THEN <<>> ELSE v[1]

\* What a step of the walk does when it is the visit of a line under d + 1
\* open line blocks, the departure from a line, or the visit of or departure
\* from a line block.
LineVisited ==
  /\ el' = el /\ Len(html') = Len(html)
  /\ Written(html', el[Len(el)]) =
       Written(html, el[Len(el)])
         \o [i \in 1..(4 * (Cardinality(OpenLineBlocks(stack)) - 1)) |-> "nbsp"]
LineDeparted ==
  /\ el' = el /\ Len(html') = Len(html) + 1
  /\ html'[Len(html')] = [Element("br") EXCEPT !.parent = el[Len(el)]]
  /\ html'[el[Len(el)]].kids = Append(html[el[Len(el)]].kids, Len(html'))
  /\ html'[el[Len(el)]].text = html[el[Len(el)]].text
  /\ \A e \in 1..Len(html) : e # el[Len(el)] => html'[e] = html[e]
LineBlockCalled == el' = el /\ html' = html

\* C9: the visit of a line under d + 1 open line blocks writes exactly 4 * d
\* no-break spaces where text goes next; the departure from a line adds
\* exactly one br, an empty last child of the current element, and nothing
\* else; the visit of and the departure from a line block change neither the
\* tree nor self.el; and self.line_block_indent, once it exists, is one less
\* than the number of open line blocks, so -1 when none is open.
C9_LineBlocks ==
  [][/\ Called("visit", "line") => LineVisited
     /\ Called("depart", "line") => LineDeparted
     /\ (Called("visit", "line_block") \/ Called("depart", "line_block")) => LineBlockCalled
     /\ has_indent' => line_block_indent' = Cardinality(OpenLineBlocks(stack')) - 1]_vars

\* A line block with a line and an inner line block with a line were walked:
\* the text after the first br starts with four no-break spaces and then has
\* the second line's text, a second br follows, and the indent is back at -1.
C9_Witness ==
  /\ pc = "walked" /\ has_indent /\ line_block_indent = -1
  /\ \E e \in 1..Len(html), f \in 1..Len(html) :
       /\ html[e].tag = "br" /\ html[f].tag = "br" /\ html[e].parent = ArticleEl
       /\ html[ArticleEl].kids = <<e, f>>
       /\ ~IsNone(html[e].tail) /\ Len(html[e].tail[1]) = 5
       /\ SubSeq(html[e].tail[1], 1, 4) = <<"nbsp", "nbsp", "nbsp", "nbsp">>

----------------------------------------------------------------------------
(* C10 *)

\* The element of the scope that node i opens: the section of a section, the
\* article of the document (and of a docinfo, which opens no element).
ScopeOf(i) == log[CHOOSE v \in VisitsOf(i) : TRUE].own

\* The header that the heading or field element e was put in: the parent of
\* its hgroup, or of the table of its row.
RECURSIVE HeaderOver(_)
HeaderOver(e) ==
  IF e = 0 THEN 0
  ELSE IF html[e].tag = "header" THEN e
  ELSE HeaderOver(html[e].parent)

----------------------------------------------------------------------------
(* C11 *)

\* C11 as stated: depart() called while the current element is the article
\* (only the root is open) raises, so that a walk that goes on never has its
\* insertion point outside the article.  depart() assigns
\* self.cur_el().getparent() whatever the current element is: at the article
\* the body becomes current and the walk goes on (an attribution that is a
\* child of the document puts its cite under the body).
C11_PopAtRootFatal ==
  pc \in {"walking", "walked", "done"} =>
    Len(el) >= 1 /\ UnderArticle(html, el[Len(el)])

----------------------------------------------------------------------------
(* C12 *)

\* C12 as stated: the visit of a topic makes a div with class "topic" the new
\* last child of the current element and makes it current.  visit_topic is
\* visit_rst_name_classy, which indexes the list classy_elements with the
\* class name: TypeError at every topic.
C12_TopicDiv ==
  \A k \in 1..Len(log) :
    (log[k].ev = "visit" /\ log[k].node.kind = "topic") =>
      /\ log[k].ok
      /\ html[log[k].own].tag = "div"
      /\ Get(html[log[k].own].attrs, "class", None) = <<"topic">>

----------------------------------------------------------------------------
(* C13 *)

\* The enumeration style of the list visited at k, and the style attribute of
\* its ol (None when it has none).
EnumTypeAt(k) == log[k].node.attributes["enumtype"]
StyleAt(k) == Get(html[log[k].own].attrs, "style", None)

\* C13: the ol of an enumerated list has no style attribute when the
\* enumtype is arabic; for loweralpha, upperalpha, lowerroman and upperroman
\* it has a style attribute "list-style: <name>;", where two lists have the
\* same attribute exactly when they have the same enumtype; and after the
\* list's departure the element that was current before its visit (the ol's
\* parent) is current again.
C13_ListStyle ==
  /\ \A k \in VisitsOfKind("enumerated_list") :
       /\ html[log[k].own].tag = "ol"
       /\ IsNone(StyleAt(k)) <=> EnumTypeAt(k) = "arabic"
       /\ ~IsNone(StyleAt(k)) =>
            Len(StyleAt(k)) = 3 /\ StyleAt(k)[1] = "list-style: " /\ StyleAt(k)[3] = ";"
       /\ \A d \in DepartsOf(log[k].node.id) :
            /\ log[d].ok
            /\ log[d].own = html[log[k].own].parent
            /\ log[d].depth = log[k].depth
  /\ \A k \in VisitsOfKind("enumerated_list"), m \in VisitsOfKind("enumerated_list") :
       StyleAt(k) = StyleAt(m) <=> EnumTypeAt(k) = EnumTypeAt(m)

\* An arabic list, a loweralpha list and an upperroman list were walked: the
\* first has no style, the other two have different ones.
C13_Witness ==
  /\ pc = "walked"
  /\ \E a \in VisitsOfKind("enumerated_list"), b \in VisitsOfKind("enumerated_list"),
        c \in VisitsOfKind("enumerated_list") :
       /\ EnumTypeAt(a) = "arabic" /\ IsNone(StyleAt(a))
       /\ EnumTypeAt(b) = "loweralpha" /\ StyleAt(b) = <<"list-style: ", "lower-alpha", ";">>
       /\ EnumTypeAt(c) = "upperroman" /\ StyleAt(c) = <<"list-style: ", "upper-roman", ";">>

----------------------------------------------------------------------------
(* C14 *)

\* C14 as stated: the departure from every block quote, an empty one
\* included, raises nothing and makes current the element that was current
\* before the quote's visit (the parent of the blockquote, which is the parent
\* of the body section).  depart_block_quote reads self.cur_el()[-1]: for a
\* quote without children the current element is the empty body section and
\* [-1] raises IndexError.
C14_QuoteClosed ==
  \A k \in 1..Len(log) :
    (log[k].ev = "depart" /\ log[k].node.kind = "block_quote") =>
      /\ log[k].ok
      /\ \A v \in VisitsOf(log[k].node.id) :
           /\ log[k].own = html[html[log[v].own].parent].parent
           /\ log[k].depth = log[v].depth

----------------------------------------------------------------------------
(* C15 *)

\* The trees compact's loop goes through on tree t for the list ps: t, and
\* the tree after each p of the list was examined.
RECURSIVE Examined(_, _)
Examined(t, ps) ==
  IF ps = <<>> THEN <<t>> ELSE <<t>> \o Examined(compact_p(t, Head(ps)), Tail(ps))

\* What examining p may do to tree t, giving u.  If p is the only child of its
\* parent and the parent has no text: the parent has p's text and p's
\* children in their order, each child is as it was (tail included) but for
\* its parent, p is out of the tree, and nothing else differs.  Otherwise
\* nothing differs.
Rule(t, u, p) ==
  LET parent == t[p].parent
      kids == {t[p].kids[i] : i \in 1..Len(t[p].kids)}
  IN  IF Len(t[parent].kids) = 1 /\ IsNone(t[parent].text)
      THEN /\ u[parent] = [t[parent] EXCEPT !.text = t[p].text, !.kids = t[p].kids]
           /\ \A c \in kids : u[c] = [t[c] EXCEPT !.parent = parent]
           /\ u[p].parent = 0
           /\ \A e \in 1..Len(u) : p \notin {u[e].kids[i] : i \in 1..Len(u[e].kids)}
           /\ \A e \in (1..Len(t)) \ ({parent, p} \cup kids) : u[e] = t[e]
      ELSE u = t

\* C15: compact() examines the p elements of the tree in document order;
\* each is taken out exactly when, as it is examined, it is the only child of
\* its parent and the parent has no text, and then the parent gets its text
\* and its children with their tails in order; a p with a sibling, or under a
\* parent with text, is left as it is, and nothing else changes.
C15_CollapseRule ==
  pc = "once" =>
    LET ps == XpathAllP(raw)
        trees == Examined(raw, ps)
    IN  /\ html = trees[Len(trees)]
        /\ \A i \in 1..Len(ps) : Rule(trees[i], trees[i + 1], ps[i])

\* compact() ran on a tree whose root has no text and one child, a p with two
\* children: a p and an element with a tail.  The outer p is gone, the root
\* has its children, and the inner p, which now has a sibling, is still there.
C15_Witness ==
  /\ pc = "once"
  /\ \E p \in 2..Len(raw) :
       /\ raw[p].tag = "p" /\ raw[1].kids = <<p>> /\ IsNone(raw[1].text)
       /\ Len(raw[p].kids) = 2
       /\ raw[raw[p].kids[1]].tag = "p"
       /\ ~IsNone(raw[raw[p].kids[2]].tail)
       /\ html[1].kids = raw[p].kids
       /\ html[raw[p].kids[1]].parent = 1
       /\ html[raw[p].kids[2]].tail = raw[raw[p].kids[2]].tail

----------------------------------------------------------------------------
(* C16 *)

\* The content of element e of tree t in document order: its text, then for
\* each child the child itself (left out when it is in gone), the child's
\* content and the child's tail.
TextItems(v) == IF IsNone(v) THEN <<>> ELSE [i \in 1..Len(v[1]) |-> <<"text", v[1][i]>>]
RECURSIVE Content(_, _, _)
Content(t, e, gone) ==
  TextItems(t[e].text)
    \o Flatten([i \in 1..Len(t[e].kids) |->
                  (IF t[e].kids[i] \in gone THEN <<>> ELSE <<<<"elem", ToString(t[e].kids[i])>>>>)
                    \o Content(t, t[e].kids[i], gone)
                    \o TextItems(t[t[e].kids[i]].tail)])

\* The p elements that compact() took out of the tree.
Collapsed == {p \in 2..Len(html) : html[p].parent = 0 /\ raw[p].parent # 0}

\* C16 as stated: compact() keeps the document-order sequence of all text and
\* of all elements but the collapsed p, and every element still in the tree
\* is a child of exactly one element, once.  parent.remove(p) takes p out
\* together with its tail: the text that followed a collapsed p is lost.
C16_NoContentLost ==
  pc = "once" =>
    /\ Content(html, 1, {}) = Content(raw, 1, Collapsed)
    /\ \A e \in (2..Len(html)) \ Collapsed :
         /\ html[e].parent # 0
         /\ Cardinality({<<f, i>> \in (1..Len(html)) \X (1..Len(html)) :
                           i <= Len(html[f].kids) /\ html[f].kids[i] = e}) = 1
         /\ \E i \in 1..Len(html[html[e].parent].kids) : html[html[e].parent].kids[i] = e

----------------------------------------------------------------------------
(* C17 *)

\* The visits of the docinfo fields, whether they returned or raised (a date
\* whose text makes the parser raise OverflowError has its row by then), and
\* those whose cell lies in header h, in order.
FieldVisits ==
  {k \in 1..Len(log) : log[k].ev = "visit" /\ log[k].node.kind \in {"author", "date"}}
FieldsIn(h) ==
  SelectSeq([k \in 1..Len(log) |-> k],
            LAMBDA k : k \in FieldVisits /\ HeaderOver(log[k].own) = h)

\* The row tr is the row of the field visited at k: a th with the field's
\* label and a td with its itemprop, which is the element the field pushed
\* (for a date, the parent of the time it pushed).
FieldRow(tr, k) ==
  /\ html[tr].tag = "tr" /\ Len(html[tr].kids) = 2
  /\ html[html[tr].kids[1]].tag = "th"
  /\ html[html[tr].kids[1]].text =
       Some(<<IF log[k].node.kind = "author" THEN "Author" ELSE "Date">>)
  /\ html[html[tr].kids[2]].tag = "td"
  /\ html[html[tr].kids[2]].attrs = [itemprop |-> <<log[k].node.kind>>]
  /\ html[tr].kids[2] =
       IF log[k].node.kind = "author" THEN log[k].own ELSE html[log[k].own].parent

\* C17: a header that fields were put in has exactly one table, with exactly
\* one tbody, whose rows are the rows of those fields, one each, in the order
\* of the fields entered; and after a field's departure self.el is as long as
\* before its visit and the element that was current then is current again.
\* That holds of every call, also of a visit_date that the parser's
\* OverflowError leaves and of a departure that raises TypeError in add_meta
\* (a field whose cell has no text of its own) after it popped.
C17_DocinfoTable ==
  /\ \A h \in 1..Len(html) :
       (html[h].tag = "header" /\ FieldsIn(h) # <<>>) =>
         LET tables == XpathChildren(html, h, "table")
         IN  /\ Len(tables) = 1
             /\ Len(html[tables[1]].kids) = 1
             /\ html[html[tables[1]].kids[1]].tag = "tbody"
             /\ Len(html[html[tables[1]].kids[1]].kids) = Len(FieldsIn(h))
             /\ \A i \in 1..Len(FieldsIn(h)) :
                  FieldRow(html[html[tables[1]].kids[1]].kids[i], FieldsIn(h)[i])
  /\ \A k \in FieldVisits :
       /\ HeaderOver(log[k].own) # 0
       /\ log[k].own # log[k - 1].own
       /\ \A d \in DepartsOf(log[k].node.id) :
            /\ log[d].depth = log[k].depth
            /\ log[d].own = log[k - 1].own
            /\ log[d].own = ScopeOf(log[k].parent)

\* A docinfo with an author and then a date was walked: one table, one
\* tbody, two rows, Author first.
C17_Witness ==
  /\ pc = "walked"
  /\ \E h \in 1..Len(html) :
       /\ html[h].tag = "header" /\ Len(FieldsIn(h)) = 2
       /\ log[FieldsIn(h)[1]].node.kind = "author"
       /\ log[FieldsIn(h)[2]].node.kind = "date"
       /\ Len(XpathGrandChildren(html, h, "table", "tbody")) = 1
       /\ Len(html[XpathGrandChildren(html, h, "table", "tbody")[1]].kids) = 2

----------------------------------------------------------------------------
(* C18 *)

\* The call at k lies between the visit of a thead and the departure from it.
InThead(k) ==
  \E v \in VisitsOfKind("thead") :
    v < k /\ \A d \in DepartsOf(log[v].node.id) : k < d

\* C18 as stated: the cell of an entry is a th exactly when the entry is
\* visited between the visit of a thead and the departure from it, a td
\* otherwise; and self.in_thead is True only while a thead is open.
\* self.in_thead is one flag that depart_thead sets to False: after a table
\* nested in a header cell has closed its own thead, the remaining entries of
\* the outer thead are visited with the flag False and become td.
C18_HeaderCells ==
  /\ \A k \in VisitsOfKind("entry") :
       /\ html[log[k].own].tag \in {"th", "td"}
       /\ html[log[k].own].tag = "th" <=> InThead(k)
  /\ in_thead = "true" =>
       \E f \in 1..Len(stack) : stack[f].node.kind = "thead"

----------------------------------------------------------------------------
(* C19 *)

\* The visits of the titles of the scope of the subtitle visited at k (the
\* titles with the same parent node) before it, and the last of them.
TitlesBefore(k) == {t \in VisitsOfKind("title") : log[t].parent = log[k].parent /\ t < k}
LastTitle(k) == CHOOSE t \in TitlesBefore(k) : \A u \in TitlesBefore(k) : u <= t

\* The heading depth after the call at k: what the next call found, or the
\* present value when k is the last call.
LevelAfter(k) ==
  IF k < Len(log) THEN DepthAt(k + 1) ELSE IF has_level THEN level ELSE 0

\* C19: the heading of a subtitle is a child of the hgroup that holds the
\* heading of the last title of its scope, after that heading; the title's
\* heading being h<n>, the subtitle's is h<n+1>; the subtitle's visit leaves
\* self.level as it was; and after its departure self.el is as long as before
\* its visit and the scope's element is current again.
C19_Subtitle ==
  \A k \in VisitsOfKind("subtitle") :
    /\ TitlesBefore(k) # {}
    /\ LET t == LastTitle(k)
           hgroup == html[log[t].own].parent
       IN  /\ html[hgroup].tag = "hgroup"
           /\ html[hgroup].kids = <<log[t].own, log[k].own>>
           /\ html[log[k].own].parent = hgroup
           /\ html[log[t].own].tag = "h" \o ToString(DepthAt(t) + 1)
           /\ html[log[k].own].tag = "h" \o ToString(DepthAt(t) + 2)
    /\ LevelAfter(k) = DepthAt(k)
    /\ \A d \in DepartsOf(log[k].node.id) :
         /\ log[d].ok
         /\ log[d].depth = log[k].depth
         /\ log[d].own = ScopeOf(log[k].parent)
         /\ DepthAt(d) = DepthAt(k)

\* Under a titled document a section with a title (h2) and a subtitle (h3)
\* was walked.
C19_Witness ==
  /\ pc = "walked"
  /\ \E k \in VisitsOfKind("subtitle") :
       /\ log[k].parent # 0
       /\ html[log[k].own].tag = "h3"
       /\ html[html[html[html[log[k].own].parent].parent].parent].tag = "section"
       /\ DepartsOf(log[k].node.id) # {}

----------------------------------------------------------------------------
(* C20 *)

\* The section or document node that encloses node i most closely (i itself
\* when it is one).
RECURSIVE ScopeNode(_)
ScopeNode(i) ==
  IF i <= 0 THEN 0
  ELSE LET v == CHOOSE v \in VisitsOf(i) : TRUE
       IN  IF log[v].node.kind = "section" THEN i ELSE ScopeNode(log[v].parent)

\* The subtitle visits whose scope had no title before them.
UntitledSubtitles ==
  {k \in 1..Len(log) :
     /\ log[k].ev = "visit" /\ log[k].node.kind = "subtitle"
     /\ \A t \in VisitsOfKind("title") :
          t < k => ScopeNode(log[t].parent) # ScopeNode(log[k].parent)}

\* The heading elements of the tree.
Headings ==
  {e \in 1..Len(html) : \E n \in 0..(nnodes + 1) : html[e].tag = "h" \o ToString(n)}

\* C20 as stated: the visit of a subtitle whose section or document had no
\* title before it raises; that ends the walk (it is the last call, astext()
\* is never reached, no output), and no heading was made for it: the headings
\* of the tree are those of the titles and subtitles whose visits returned.
\* visit_subtitle looks for the hgroup in the header of the current element,
\* which after an attribution is not the element of the subtitle's scope.
C20_SubtitleWithoutTitle ==
  \A k \in UntitledSubtitles :
    /\ ~log[k].ok
    /\ pc = "failed" /\ raised \in {"IndexError", "AttributeError"}
    /\ k = Len(log)
    /\ Cardinality(Headings) =
         Cardinality(VisitsOfKind("title")) + Cardinality(VisitsOfKind("subtitle"))

====
